---- MODULE Spec2Model ----
(***************************************************************************)
(* PyCIRCLean: kittengroomer/helpers.py (FileBase, KittenGroomerBase) and  *)
(* bin/filecheck.py (File, GroomerLogger, KittenGroomerFileCheck).         *)
(*                                                                         *)
(* Strings are sequences of tokens: a file name is a sequence such as      *)
(* <<"a", ".txt">>, a path is a sequence of names, a mimetype is a         *)
(* sequence such as <<"text", "/", "plain">>.  Python's None and the empty *)
(* string are both the empty sequence (or "" for one-token values): the    *)
(* code only ever tests them for truthiness.                               *)
(***************************************************************************)
EXTENDS Naturals, Integers, Sequences, FiniteSets, TLC

VARIABLES
    rec,        \* FileSpec: the File object under test
    rec_pc,     \* FileSpec: "new", or the last method called on rec
    calls,      \* FileSpec: number of method calls made on rec after check()
    prev,       \* FileSpec: safety_category of rec before the last call
    ops,        \* FileSpec: the methods called on rec so far
    verdict,    \* FileSpec: what the collaborators reported to the last call
    root,       \* the source tree of the run (a node of Nodes)
    max_recursive_depth,        \* KittenGroomerFileCheck.max_recursive_depth
    recursive_archive_depth,    \* KittenGroomerFileCheck.recursive_archive_depth
    stack,      \* call stack of process_dir / process_archive invocations
    pc,         \* position of run(): "idle", "running", "done", "crashed"
    log,        \* lines of circlean_log.txt
    dest,       \* files written under the destination root
    tempdirs,   \* scratch directories that exist
    extracted,  \* history: archives the extractor was launched on
    done        \* history: the File objects whose process_file has returned

vars == <<rec, rec_pc, calls, prev, ops, verdict, root, max_recursive_depth,
          recursive_archive_depth, stack, pc, log, dest, tempdirs, extracted, done>>

(***************************************************************************)
(* Bounds                                                                  *)
(***************************************************************************)
MaxCalls == 2
MaxDepthParam == 3
MaxFeatures == 2

(***************************************************************************)
(* Strings                                                                 *)
(***************************************************************************)
None == ""
NoneSeq == <<>>
RLO == "<U+202E>"

ExtTokens == {".txt", ".TXT", ".exe", ".EXE", ".js", ".pdf", ".zip", ".eml",
              ".bin", ".jpg", ".doc", ".docx", ".odt", ".wrl", ".xyz"}

\* str.lower() on the extensions of the model
Lower(t) ==
    CASE t = ".TXT" -> ".txt"
      [] t = ".EXE" -> ".exe"
      [] t = "A" -> "a"
      [] t = "B" -> "b"
      [] OTHER -> t

Last(s) == s[Len(s)]
Front(s) == SubSeq(s, 1, Len(s) - 1)

\* os.path.basename / os.path.split / os.path.join on a path of names
basename(path) == Last(path)
dirname(path) == Front(path)
join(dir, name) == Append(dir, name)

\* os.path.splitext(path)[1]: the last dot-suffix of the last name, unless
\* the name consists of that suffix alone (a dotfile)
splitext(path) ==
    LET name == basename(path)
    IN  IF Len(name) >= 2 /\ Last(name) \in ExtTokens THEN Last(name) ELSE ""

\* str.endswith(ext) on a path
endswith(path, ext) ==
    LET name == basename(path)
    IN  Len(name) >= 1 /\ Last(name) = ext

\* str.replace(tok, '') on every name of a path
RECURSIVE strip(_, _)
strip(s, tok) ==
    IF s = <<>> THEN <<>>
    ELSE IF s[1] = tok THEN strip(SubSeq(s, 2, Len(s)), tok)
    ELSE <<s[1]>> \o strip(SubSeq(s, 2, Len(s)), tok)

replace(path, tok) == [i \in 1..Len(path) |-> strip(path[i], tok)]

\* needle in haystack, for token sequences
contains(haystack, needle) ==
    \E i \in 1..(Len(haystack) - Len(needle) + 1) :
        SubSeq(haystack, i, i + Len(needle) - 1) = needle

InSeq(x, s) == \E i \in 1..Len(s) : s[i] = x

\* Let(e, LAMBDA x : body) is LET x == e IN body, with e evaluated once
Let(value, Body(_)) == CHOOSE result \in {Body(x) : x \in {value}} : TRUE

(***************************************************************************)
(* kittengroomer/helpers.py: FileBase                                      *)
(***************************************************************************)
_determine_extension(src_path) == Lower(splitext(src_path))

\* magic.from_file result `mt`, or inode/symlink for a link.  mt = NoneSeq is
\* the UnicodeEncodeError branch.
_determine_mimetype(mt, link) ==
    IF link THEN <<"inode", "/", "symlink">> ELSE mt

SlashPos(mimetype) == CHOOSE i \in 1..Len(mimetype) : mimetype[i] = "/"

\* returns <<main_type, sub_type>>
_split_subtypes(mimetype) ==
    IF InSeq("/", mimetype)
    THEN <<SubSeq(mimetype, 1, SlashPos(mimetype) - 1),
           SubSeq(mimetype, SlashPos(mimetype) + 1, Len(mimetype))>>
    ELSE <<NoneSeq, NoneSeq>>

FileBase__init__(src_path, dst_path, mt, link) ==
    LET mimetype == _determine_mimetype(mt, link)
        types == IF mimetype # NoneSeq THEN _split_subtypes(mimetype)
                 ELSE <<NoneSeq, NoneSeq>>
    IN  [src_path |-> src_path,
         dst_path |-> dst_path,
         filepath |-> src_path,
         filename |-> basename(src_path),
         extension |-> _determine_extension(src_path),
         mimetype |-> mimetype,
         main_type |-> types[1],
         sub_type |-> types[2],
         should_copy |-> TRUE,
         safety_category |-> None,
         symlink |-> link,
         copied |-> FALSE,
         description_string |-> <<>>,
         errors |-> IF ~link /\ mt = NoneSeq THEN <<"UnicodeEncodeError">> ELSE <<>>,
         user_defined |-> {}]

\* has_mimetype asking for a main type only
has_mimetype_and(f) == ~(f.main_type = NoneSeq /\ f.sub_type = NoneSeq)

has_mimetype(f) == ~(f.main_type = NoneSeq \/ f.sub_type = NoneSeq)
has_extension(f) == f.extension # None
is_dangerous(f) == f.safety_category = "dangerous"
is_unknown(f) == f.safety_category = "unknown"
is_binary(f) == f.safety_category = "binary"
is_symlink(f) == f.symlink

\* set_property('description_string', value): duplicates are suppressed
add_description(f, description_string) ==
    IF InSeq(description_string, f.description_string) THEN f
    ELSE [f EXCEPT !.description_string = Append(@, description_string)]

add_error(f, error) == [f EXCEPT !.errors = Append(@, error)]

\* make_dangerous without the change of the destination name
make_dangerous_name_kept(f, reason_string) ==
    [add_description(f, reason_string) EXCEPT !.safety_category = "dangerous"]

make_dangerous(f, reason_string) ==
    IF is_dangerous(f) THEN add_description(f, reason_string)
    ELSE [add_description(f, reason_string) EXCEPT
            !.safety_category = "dangerous",
            !.dst_path = join(dirname(@),
                              <<"DANGEROUS_">> \o basename(@) \o <<"_DANGEROUS">>)]

make_unknown_unguarded(f) ==
    [f EXCEPT !.safety_category = "unknown",
              !.dst_path = join(dirname(@), <<"UNKNOWN_">> \o basename(@))]

make_unknown(f) ==
    IF is_dangerous(f) \/ is_binary(f) THEN f
    ELSE [f EXCEPT !.safety_category = "unknown",
                   !.dst_path = join(dirname(@), <<"UNKNOWN_">> \o basename(@))]

make_binary(f) ==
    IF is_dangerous(f) THEN f
    ELSE [f EXCEPT !.safety_category = "binary",
                   !.dst_path = join(dirname(@), basename(@) \o <<".bin">>)]

\* prepend '.' to a non-empty ext that lacks it
_check_leading_dot(ext) ==
    CASE ext = "txt" -> ".txt"
      [] ext = "bin" -> ".bin"
      [] ext = "metadata.txt" -> ".metadata.txt"
      [] OTHER -> ext

force_ext(f, ext0) ==
    Let(_check_leading_dot(ext0), LAMBDA ext :
    Let(IF ~endswith(f.dst_path, ext)
        THEN [f EXCEPT !.dst_path = join(dirname(@), basename(@) \o <<ext>>)]
        ELSE f, LAMBDA g :
        IF g.extension # ext THEN [g EXCEPT !.extension = ext] ELSE g))

(***************************************************************************)
(* bin/filecheck.py: Config                                                *)
(***************************************************************************)
mimes_ooxml == << <<"vnd.open", "xml", "formats-officedocument.">> >>
mimes_office == << <<"msword">>, <<"vnd.ms-">> >>
mimes_libreoffice == << <<"vnd.oasis.opendocument">> >>
mimes_rtf == << <<"rtf">>, <<"richtext">> >>
mimes_pdf == << <<"pdf">>, <<"postscript">> >>
mimes_xml == << <<"xml">> >>
mimes_ms == << <<"dosexec">> >>
mimes_compressed == << <<"zip">>, <<"rar">>, <<"b", "zip", "2">>, <<"l", "zip">>,
                       <<"lzma">>, <<"lzop">>, <<"xz">>, <<"compress">>,
                       <<"g", "zip">>, <<"tar">> >>
mimes_data == << <<"octet-stream">> >>

mimes_exif == { <<"image", "/", "jpeg">>, <<"image", "/", "tiff">> }
mimes_png == { <<"image", "/", "png">> }
mimes_metadata == { <<"image", "/", "jpeg">>, <<"image", "/", "tiff">>,
                    <<"image", "/", "png">> }

malicious_exts ==
    {".exe", ".pif", ".application", ".gadget", ".msi", ".msp", ".com", ".scr",
     ".hta", ".cpl", ".msc", ".jar",
     ".bat", ".cmd", ".vb", ".vbs", ".vbe", ".js", ".jse", ".ws", ".wsf",
     ".wsc", ".wsh", ".ps1", ".ps1xml", ".ps2", ".ps2xml", ".psc1", ".psc2",
     ".msh", ".msh1", ".msh2", ".mshxml", ".msh1xml", ".msh2xml",
     ".scf", ".lnk", ".inf",
     ".reg", ".dll",
     ".docm", ".dotm", ".xlsm", ".xltm", ".xlam", ".pptm", ".potm", ".ppam",
     ".ppsm", ".sldm",
     ".asf", ".asx", ".au", ".htm", ".html", ".mht",
     ".wax", ".wm", ".wma", ".wmd", ".wmv", ".wmx", ".wmz", ".wvx"}

\* the mimetypes libmagic reports for the files of the model, as tokens
M ==
    [ dosexec |-> <<"application", "/", "x-", "dosexec">>,
      msdos_program |-> <<"application", "/", "x-msdos-program">>,
      application_rtf |-> <<"application", "/", "rtf">>,
      text_rtf |-> <<"text", "/", "rtf">>,
      text_plain |-> <<"text", "/", "plain">>,
      pdf |-> <<"application", "/", "pdf">>,
      zip |-> <<"application", "/", "zip">>,
      gzip |-> <<"application", "/", "g", "zip">>,
      octet |-> <<"application", "/", "octet-stream">>,
      msword |-> <<"application", "/", "msword">>,
      ooxml |-> <<"application", "/", "vnd.open", "xml",
                  "formats-officedocument.", "wordprocessingml.document">>,
      odt |-> <<"application", "/", "vnd.oasis.opendocument", ".text">>,
      xml |-> <<"application", "/", "xml">>,
      flash |-> <<"application", "/", "x-shockwave-flash">>,
      jpeg |-> <<"image", "/", "jpeg">>,
      gif |-> <<"image", "/", "gif">>,
      mpeg |-> <<"audio", "/", "mpeg">>,
      mp4 |-> <<"video", "/", "mp4">>,
      rfc822 |-> <<"message", "/", "rfc822">>,
      vrml |-> <<"model", "/", "vrml">>,
      multipart |-> <<"multipart", "/", "mixed">>,
      example |-> <<"example", "/", "x">>,
      empty |-> <<"inode", "/", "x-empty">>,
      symlink |-> <<"inode", "/", "symlink">>,
      chemical |-> <<"chemical", "/", "x-pdb">>,
      data |-> <<"data">>,
      nosub |-> <<"text", "/">> ]

\* Config.aliases
aliases(mimetype) ==
    CASE mimetype = M.msdos_program -> M.dosexec
      [] mimetype = M.dosexec -> M.msdos_program
      [] mimetype = M.application_rtf -> M.text_rtf
      [] OTHER -> mimetype

\* Config.override_ext
override_ext(ext) == IF ext = ".gz" THEN M.gzip ELSE NoneSeq
in_override_ext(ext) == ext = ".gz"

\* mimetypes.types_map restricted to the extensions of the model
types_map(ext) ==
    CASE ext = ".txt" -> M.text_plain
      [] ext = ".pdf" -> M.pdf
      [] ext = ".zip" -> M.zip
      [] ext = ".exe" -> M.msdos_program
      [] ext = ".eml" -> M.rfc822
      [] ext = ".bin" -> M.octet
      [] ext = ".jpg" -> M.jpeg
      [] ext = ".doc" -> M.msword
      [] ext = ".docx" -> M.ooxml
      [] ext = ".odt" -> M.odt
      [] ext = ".wrl" -> M.vrml
      [] ext = ".js" -> <<"application", "/", "javascript">>
      [] OTHER -> NoneSeq

types_map_keys == {".txt", ".pdf", ".zip", ".exe", ".eml", ".bin", ".jpg",
                   ".doc", ".docx", ".odt", ".wrl", ".js"}

\* mimetypes.guess_type(path, strict=False)[0]: the lookup is by the
\* lower-cased extension of the path
guess_type(path) == types_map(Lower(splitext(path)))

\* mimetypes.guess_all_extensions(mimetype, strict=False)
guess_all_extensions(mimetype) ==
    CASE mimetype = M.text_plain -> {".txt", ".bat", ".c", ".h", ".pl"}
      [] mimetype = M.pdf -> {".pdf"}
      [] mimetype = M.zip -> {".zip"}
      [] mimetype = M.msdos_program -> {".com", ".exe", ".bat", ".dll"}
      [] mimetype = M.rfc822 -> {".eml", ".mht"}
      [] mimetype = M.octet -> {".bin", ".a", ".o", ".so"}
      [] mimetype = M.jpeg -> {".jpg", ".jpe", ".jpeg"}
      [] mimetype = M.gif -> {".gif"}
      [] mimetype = M.msword -> {".doc", ".dot"}
      [] mimetype = M.ooxml -> {".docx"}
      [] mimetype = M.odt -> {".odt"}
      [] mimetype = M.xml -> {".xml", ".xsl"}
      [] mimetype = M.flash -> {".swf"}
      [] mimetype = M.mpeg -> {".mp3", ".mp2"}
      [] mimetype = M.mp4 -> {".mp4"}
      [] mimetype = M.vrml -> {".wrl", ".vrml"}
      [] OTHER -> {}

(***************************************************************************)
(* Verdicts of the collaborators (libmagic aside) on one file: the set of  *)
(* findings they report.                                                   *)
(***************************************************************************)
OleFeatures == {"not_olefile", "olefileio_raises", "parsing_issues",
                "macro_stream", "oid_encrypted", "oid_macros",
                "ind_objectpool", "ind_flash"}
OoxmlFeatures == {"document_raises", "is_macro_enabled", "macros",
                  "embedded_controls", "embedded_objects", "embedded_packages"}
LibreofficeFeatures == {"zipfile_raises", "exec_entry"}
PdfFeatures == {"pdfid_raises", "encrypt", "js", "javascript", "aa",
                "openaction", "richmedia", "launch"}
ImageFeatures == {"image_raises"}
MetadataFeatures == {"sidecar_exists", "metadata_raises", "metadata_raises_once",
                     "tag_GPS", "tag_Model", "tag_Thumbnail", "fd0_not_writable"}
DictFeatures == {"dict_xml_first"}

Features == OleFeatures \cup OoxmlFeatures \cup LibreofficeFeatures \cup
            PdfFeatures \cup ImageFeatures \cup MetadataFeatures \cup DictFeatures

(***************************************************************************)
(* bin/filecheck.py: File                                                  *)
(***************************************************************************)
File__init__(src_path, dst_path, mt, link) ==
    FileBase__init__(src_path, dst_path, mt, link) @@
    [is_recursive |-> FALSE,
     tempdir_path |-> join(dirname(dst_path), basename(dst_path) \o <<"_temp">>),
     metadata_file_path |-> NoneSeq,
     \* history: handlers entered, exception that left the call, effects on
     \* the file system
     handlers |-> <<>>,
     raised |-> None,
     made_tempdir |-> FALSE,
     sidecar |-> <<>>,
     fd0_writes |-> 0]

ran(f, h) == [f EXCEPT !.handlers = Append(@, h)]
raise(f, e) == [f EXCEPT !.raised = e]

\* _check_dangerous with its three tests chained by elif
_check_dangerous_elif(f) ==
    IF ~has_mimetype(f) THEN make_dangerous(f, "File has no mimetype")
    ELSE IF ~has_extension(f) THEN make_dangerous(f, "File has no extension")
    ELSE IF f.extension \in malicious_exts
    THEN make_dangerous(f, "Extension identifies file as potentially dangerous")
    ELSE f

\* _check_dangerous testing the extension before the mimetype
_check_dangerous_reordered(f) ==
    Let(IF ~has_extension(f) THEN make_dangerous(f, "File has no extension") ELSE f,
        LAMBDA a :
    Let(IF a.extension \in malicious_exts
        THEN make_dangerous(a, "Extension identifies file as potentially dangerous")
        ELSE a, LAMBDA b :
        IF ~has_mimetype(b) THEN make_dangerous(b, "File has no mimetype") ELSE b))

_check_dangerous(f) ==
    Let(IF ~has_mimetype(f) THEN make_dangerous(f, "File has no mimetype") ELSE f,
        LAMBDA a :
    Let(IF ~has_extension(a) THEN make_dangerous(a, "File has no extension") ELSE a,
        LAMBDA b :
        IF b.extension \in malicious_exts
        THEN make_dangerous(b, "Extension identifies file as potentially dangerous")
        ELSE b))

_check_extension(f) ==
    LET expected_mimetype ==
            IF in_override_ext(f.extension) THEN override_ext(f.extension)
            ELSE aliases(guess_type(f.src_path))
        is_known_extension == f.extension \in types_map_keys
    IN  IF is_known_extension /\ expected_mimetype # f.mimetype
        THEN make_dangerous(f, "Mimetype does not match expected mimetype for this extension")
        ELSE f

_check_mimetype(f) ==
    LET mimetype == aliases(f.mimetype)
        expected_extensions == guess_all_extensions(mimetype)
    IN  IF expected_extensions # {} /\ has_extension(f)
           /\ f.extension \notin expected_extensions
        THEN make_dangerous(f, "Extension does not match expected extensions for this mimetype")
        ELSE f

\* _check_filename without the replace of the override character
_check_filename_kept(f) ==
    IF InSeq(RLO, f.filename)
    THEN make_dangerous(f, "Filename contains dangerous character")
    ELSE f

_check_filename(f) ==
    IF InSeq(RLO, f.filename)
    THEN [make_dangerous(f, "Filename contains dangerous character") EXCEPT
            !.dst_path = replace(@, RLO)]
    ELSE f

has_metadata(f) == f.mimetype \in mimes_metadata

make_tempdir(f) == [f EXCEPT !.made_tempdir = TRUE]

inode(f) ==
    [add_description(ran(f, "inode"),
        IF is_symlink(f) THEN "File is a symlink to {}"
        ELSE "File is an inode (empty file)") EXCEPT !.should_copy = FALSE]

unknown(f) ==
    [add_description(ran(f, "unknown"), "Unknown mimetype") EXCEPT !.should_copy = FALSE]

example(f) ==
    [add_description(ran(f, "example"), "Example file") EXCEPT !.should_copy = FALSE]

multipart(f) ==
    [add_description(ran(f, "multipart"), "Multipart file - usually found in web apps")
        EXCEPT !.should_copy = FALSE]

\* message treated as the discarded mimetypes are
message_discarded(f) ==
    [add_description(ran(f, "message"), "Message file - should not be found on USB key")
        EXCEPT !.should_copy = FALSE]

message(f) ==
    make_dangerous(ran(f, "message"), "Message file - should not be found on USB key")

model(f) ==
    make_dangerous(ran(f, "model"), "Model file - should not be found on USB key")

\* `IF cond THEN make_dangerous(f, reason)`, as a step of a handler
dangerous_if(cond, f, reason_string) ==
    IF cond THEN make_dangerous(f, reason_string) ELSE f

_ooxml(f0, v) ==
    Let(ran(f0, "_ooxml"), LAMBDA f :
        IF "document_raises" \in v THEN make_dangerous(f, "Invalid ooxml file")
        ELSE
    Let(dangerous_if("is_macro_enabled" \in v \/ "macros" \in v, f,
                     "Ooxml file containing macro"), LAMBDA a :
    Let(dangerous_if("embedded_controls" \in v, a, "Ooxml file with activex"),
        LAMBDA b :
    Let(dangerous_if("embedded_objects" \in v, b, "Ooxml file with embedded objects"),
        LAMBDA c :
        dangerous_if("embedded_packages" \in v, c,
                     "Ooxml file with embedded packages")))))

AnyIn(keys, sub_type) == \E i \in 1..Len(keys) : contains(sub_type, keys[i])

text(f0, v) ==
    Let(ran(f0, "text"), LAMBDA f :
        IF AnyIn(mimes_rtf, f.sub_type)
        THEN Let(add_description(f, "Rich Text (rtf) file"),
                 LAMBDA g : force_ext(g, ".txt"))
        ELSE IF AnyIn(mimes_ooxml, f.sub_type)
        THEN Let(add_description(f, "OOXML (openoffice) file"),
                 LAMBDA g : _ooxml(g, v))
        ELSE Let(add_description(f, "Plain text file"),
                 LAMBDA g : force_ext(g, ".txt")))

_executables(f) == make_dangerous(ran(f, "_executables"), "Executable file")

\* the manual processing without its test of the macro streams
_winoffice_manual_no_streams(f, v) ==
    IF "olefileio_raises" \in v
    THEN raise(make_dangerous(f, "Unparsable WinOffice file"), "UnboundLocalError")
    ELSE dangerous_if("parsing_issues" \in v, f, "Parsing issues with WinOffice file")

\* _winoffice when olefile.isOleFile is false: manual processing
_winoffice_manual(f, v) ==
    IF "olefileio_raises" \in v
    \* `ole` is unbound after the except clause
    THEN raise(make_dangerous(f, "Unparsable WinOffice file"), "UnboundLocalError")
    ELSE IF "parsing_issues" \in v
    THEN make_dangerous(f, "Parsing issues with WinOffice file")
    ELSE dangerous_if("macro_stream" \in v, f, "WinOffice file containing a macro")

\* _winoffice when olefile.isOleFile is true: the indicators of oletools.oleid
_winoffice_indicators(f, v) ==
    Let(dangerous_if("oid_encrypted" \in v, f, "Encrypted WinOffice file"),
        LAMBDA a :
    Let(dangerous_if("oid_macros" \in v \/ "macro_stream" \in v, a,
                     "WinOffice file containing a macro"), LAMBDA b :
    Let(IF "ind_objectpool" \in v
        THEN add_description(b, "WinOffice file containing an object pool") ELSE b,
        LAMBDA c :
        dangerous_if("ind_flash" \in v, c, "WinOffice file with embedded flash"))))

_winoffice(f0, v) ==
    Let(ran(f0, "_winoffice"), LAMBDA f :
    Let(IF "not_olefile" \in v THEN _winoffice_manual(f, v)
        ELSE _winoffice_indicators(f, v), LAMBDA g :
        IF g.raised # None THEN g ELSE add_description(g, "WinOffice file")))

_libreoffice(f0, v) ==
    Let(ran(f0, "_libreoffice"), LAMBDA f :
        IF "zipfile_raises" \in v
        \* `lodoc` is unbound after the except clause
        THEN raise(make_dangerous(f, "Invalid libreoffice file"), "UnboundLocalError")
        ELSE
    Let(dangerous_if("exec_entry" \in v, f,
                     "Libreoffice file containing executable code"), LAMBDA a :
        IF ~is_dangerous(a) THEN add_description(a, "Libreoffice file") ELSE a))

\* _pdf with its tests chained by elif
_pdf_elif(f0, v) ==
    Let(ran(f0, "_pdf"), LAMBDA f :
        IF "pdfid_raises" \in v THEN raise(f, "Exception")
        ELSE IF "encrypt" \in v THEN make_dangerous(f, "Encrypted pdf")
        ELSE IF "js" \in v \/ "javascript" \in v
        THEN make_dangerous(f, "Pdf with embedded javascript")
        ELSE IF "aa" \in v \/ "openaction" \in v
        THEN make_dangerous(f, "Pdf with openaction(s)")
        ELSE IF "richmedia" \in v THEN make_dangerous(f, "Pdf containing flash")
        ELSE IF "launch" \in v THEN make_dangerous(f, "Pdf with launch action(s)")
        ELSE add_description(f, "Pdf file"))

_pdf(f0, v) ==
    Let(ran(f0, "_pdf"), LAMBDA f :
        IF "pdfid_raises" \in v THEN raise(f, "Exception")
        ELSE
    Let(dangerous_if("encrypt" \in v, f, "Encrypted pdf"), LAMBDA a :
    Let(dangerous_if("js" \in v \/ "javascript" \in v, a,
                     "Pdf with embedded javascript"), LAMBDA b :
    Let(dangerous_if("aa" \in v \/ "openaction" \in v, b, "Pdf with openaction(s)"),
        LAMBDA c :
    Let(dangerous_if("richmedia" \in v, c, "Pdf containing flash"), LAMBDA d :
    Let(dangerous_if("launch" \in v, d, "Pdf with launch action(s)"), LAMBDA e :
        IF ~is_dangerous(e) THEN add_description(e, "Pdf file") ELSE e))))))

_archive(f) ==
    [add_description(ran(f, "_archive"), "Archive") EXCEPT
        !.should_copy = FALSE, !.is_recursive = TRUE]

_unknown_app(f) ==
    Let(add_description(ran(f, "_unknown_app"), "Unknown application file"),
        LAMBDA g : make_unknown(g))

_binary_app(f) ==
    Let(add_description(ran(f, "_binary_app"), "Unknown binary file"),
        LAMBDA g : make_binary(g))

(***************************************************************************)
(* Metadata extractors                                                     *)
(***************************************************************************)
\* create_metadata_file: the File afterwards; the call returns False when
\* the sidecar path exists next to the source
create_metadata_file(f, ext0, v) ==
    IF "sidecar_exists" \in v THEN add_error(f, "KittenGroomerError")
    ELSE [f EXCEPT !.metadata_file_path =
            join(dirname(f.dst_path),
                 basename(f.dst_path) \o <<_check_leading_dot(ext0)>>)]

\* sorted(tags.keys()) without the thumbnail / profile keys
retained_tags(v) ==
    (IF "tag_GPS" \in v THEN <<"GPS GPSLatitude">> ELSE <<>>) \o
    (IF "tag_Model" \in v THEN <<"Image Model">> ELSE <<>>)

\* the loop `with open(metadata_file_path, 'w+') ... write(line)` over the
\* retained tags: each open truncates the file.  With metadata_file_path =
\* False the file opened is descriptor 0, which the first `with` closes.
write_tags(f, tags, path_ok, v) ==
    IF tags = <<>> THEN f
    ELSE IF path_ok
    THEN [f EXCEPT !.sidecar = << <<"Key: ", tags[Len(tags)], "\tValue: ">> >>]
    ELSE IF "fd0_not_writable" \in v THEN raise(f, "OSError")
    ELSE IF Len(tags) > 1 THEN raise([f EXCEPT !.fd0_writes = 1], "OSError")
    ELSE [f EXCEPT !.fd0_writes = 1]

set_user_property(f, prop_string, value) ==
    [f EXCEPT !.user_defined = @ \cup {<<prop_string, value>>}]

_metadata_exif(f, path_ok, v) ==
    Let(IF "metadata_raises" \in v \/ "metadata_raises_once" \in v
        THEN add_error(f, "Error while trying to grab full metadata")
        ELSE f, LAMBDA a :
        IF "metadata_raises" \in v
        THEN add_error(a, "Failed to get any metadata")
        ELSE
    Let(write_tags(a, retained_tags(v), path_ok, v), LAMBDA w :
        IF w.raised # None THEN w
        ELSE set_user_property(w, "metadata", "exif")))

\* the except clause of _metadata_png
_metadata_png_caught(f) ==
    Let(add_error(raise(f, None), "Caught exception processing metadata"),
        LAMBDA g : make_dangerous(g, "exception processing metadata"))

_metadata_png(f, path_ok, v) ==
    IF "metadata_raises" \in v THEN _metadata_png_caught(f)
    ELSE
    Let(write_tags(f, retained_tags(v), path_ok, v), LAMBDA w :
        IF w.raised # None THEN _metadata_png_caught(w)
        ELSE set_user_property(w, "metadata", "png"))

extract_metadata(f, v) ==
    Let(create_metadata_file(f, ".metadata.txt", v), LAMBDA g :
        IF g.mimetype \in mimes_exif
        THEN _metadata_exif(g, "sidecar_exists" \notin v, v)
        ELSE IF g.mimetype \in mimes_png
        THEN _metadata_png(g, "sidecar_exists" \notin v, v)
        ELSE g)

(***************************************************************************)
(* Media                                                                   *)
(***************************************************************************)
_media_processing(f) == add_description(f, "Media file")

audio(f) ==
    Let(add_description(ran(f, "audio"), "Audio file"),
        LAMBDA g : _media_processing(g))

video(f) ==
    Let(add_description(ran(f, "video"), "Video file"),
        LAMBDA g : _media_processing(g))

\* the try / except of image(): decode and re-encode into the scratch
\* directory
image_convert(f, v) ==
    IF "image_raises" \in v
    THEN Let(add_error(f, "Caught exception (possible decompression bomb?)"),
             LAMBDA g : make_dangerous(g, "Image file containing decompression bomb"))
    ELSE [f EXCEPT !.src_path = join(f.tempdir_path, f.filename)]

image(f0, v) ==
    Let(ran(f0, "image"), LAMBDA f :
    Let(IF has_metadata(f) THEN extract_metadata(f, v) ELSE f, LAMBDA a :
        IF a.raised # None THEN a
        ELSE
    Let(make_tempdir(a), LAMBDA b :
    Let(image_convert(b, v), LAMBDA c :
        IF ~is_dangerous(c) THEN add_description(c, "Image file") ELSE c))))

(***************************************************************************)
(* Dispatch                                                                *)
(***************************************************************************)
\* _make_method_dict: one <<subtype, method>> entry per subtype, in
\* insertion order
RECURSIVE _make_method_dict(_)
_make_method_dict(list_of_tuples) ==
    IF list_of_tuples = <<>> THEN <<>>
    ELSE LET list_of_subtypes == list_of_tuples[1][1]
             method == list_of_tuples[1][2]
         IN  [i \in 1..Len(list_of_subtypes) |-> <<list_of_subtypes[i], method>>]
             \o _make_method_dict(SubSeq(list_of_tuples, 2, Len(list_of_tuples)))

subtypes_apps ==
    << <<mimes_office, "_winoffice">>,
       <<mimes_ooxml, "_ooxml">>,
       <<mimes_rtf, "text">>,
       <<mimes_libreoffice, "_libreoffice">>,
       <<mimes_pdf, "_pdf">>,
       <<mimes_xml, "text">>,
       <<mimes_ms, "_executables">>,
       <<mimes_compressed, "_archive">>,
       <<mimes_data, "_binary_app">> >>

app_subtype_methods == _make_method_dict(subtypes_apps)

\* Iteration order of app_subtype_methods.items().  It is the insertion
\* order from Python 3.7 on and unspecified before; of the other orders, the
\* one that selects another method for a subtype of the model has 'xml'
\* ahead of the OOXML key.
items(v) ==
    IF "dict_xml_first" \in v
    THEN << <<mimes_xml[1], "text">> >> \o app_subtype_methods
    ELSE app_subtype_methods

call_method(method, f, v) ==
    CASE method = "_winoffice" -> _winoffice(f, v)
      [] method = "_ooxml" -> _ooxml(f, v)
      [] method = "text" -> text(f, v)
      [] method = "_libreoffice" -> _libreoffice(f, v)
      [] method = "_pdf" -> _pdf(f, v)
      [] method = "_executables" -> _executables(f)
      [] method = "_archive" -> _archive(f)
      [] method = "_binary_app" -> _binary_app(f)

\* the method of the first item whose subtype is in sub_type, "" if none
first_match(its, sub_type) ==
    Let({i \in 1..Len(its) : contains(sub_type, its[i][1])}, LAMBDA hits :
        IF hits = {} THEN ""
        ELSE its[CHOOSE i \in hits : \A j \in hits : i <= j][2])

application(f0, v) ==
    Let(ran(f0, "application"), LAMBDA f :
    Let(items(v), LAMBDA its :
    Let(first_match(its, f.sub_type), LAMBDA method :
        IF method # "" THEN call_method(method, f, v) ELSE _unknown_app(f))))

\* self.mime_processing_options.get(self.main_type, self.unknown)()
mime_processing_options(f, v) ==
    CASE f.main_type = <<"text">> -> text(f, v)
      [] f.main_type = <<"audio">> -> audio(f)
      [] f.main_type = <<"image">> -> image(f, v)
      [] f.main_type = <<"video">> -> video(f)
      [] f.main_type = <<"application">> -> application(f, v)
      [] f.main_type = <<"example">> -> example(f)
      [] f.main_type = <<"message">> -> message(f)
      [] f.main_type = <<"model">> -> model(f)
      [] f.main_type = <<"multipart">> -> multipart(f)
      [] f.main_type = <<"inode">> -> inode(f)
      [] OTHER -> unknown(f)

check_dispatch_always(f, v) ==
    Let(_check_dangerous(f), LAMBDA a :
    Let(_check_filename(a), LAMBDA b :
    Let(IF has_extension(b) THEN _check_extension(b) ELSE b, LAMBDA c :
    Let(IF has_mimetype(c) THEN _check_mimetype(c) ELSE c, LAMBDA d :
        mime_processing_options(d, v)))))

check(f, v) ==
    Let(_check_dangerous(f), LAMBDA a :
    Let(_check_filename(a), LAMBDA b :
    Let(IF has_extension(b) THEN _check_extension(b) ELSE b, LAMBDA c :
    Let(IF has_mimetype(c) THEN _check_mimetype(c) ELSE c, LAMBDA d :
        IF ~is_dangerous(d) THEN mime_processing_options(d, v) ELSE d))))

(***************************************************************************)
(* FileSpec: one File object, constructed for a source file of any name    *)
(* and sniffed mimetype, and then used through its methods in any order.   *)
(***************************************************************************)
src_root == << <<"src">> >>
dst_root == << <<"dst">> >>

Names ==
    { <<"a">>, <<".txt">>, <<"a", RLO, ".txt">>, <<"a", RLO, ".exe">> } \cup
    { <<"a", e>> : e \in ExtTokens }

Mimetypes ==
    { M.text_plain, M.text_rtf, M.pdf, M.zip, M.gzip, M.octet, M.msword, M.ooxml,
      M.odt, M.xml, M.flash, M.dosexec, M.jpeg, M.gif, M.mpeg, M.mp4, M.rfc822,
      M.vrml, M.multipart, M.example, M.empty, M.chemical, M.data, M.nosub,
      <<"image", "/", "png">>, <<"text", "/", "vnd.open", "xml",
      "formats-officedocument.", "x">>, NoneSeq }

Reasons == {"Archive bomb", "Executable file"}

HandlerNames ==
    {"text", "audio", "image", "video", "application", "example", "message",
     "model", "multipart", "inode", "unknown", "_winoffice", "_ooxml",
     "_libreoffice", "_pdf", "_executables", "_archive", "_binary_app",
     "_unknown_app"}

\* the findings that the handlers reachable for f read
RelevantFeatures(f) ==
    (IF f.main_type \in {<<"application">>, <<"text">>}
     THEN (IF AnyIn(mimes_ooxml, f.sub_type) THEN OoxmlFeatures \cup DictFeatures ELSE {})
          \cup (IF f.main_type = <<"application">>
                THEN (IF AnyIn(mimes_office, f.sub_type) THEN OleFeatures ELSE {})
                     \cup (IF AnyIn(mimes_libreoffice, f.sub_type)
                           THEN LibreofficeFeatures ELSE {})
                     \cup (IF AnyIn(mimes_pdf, f.sub_type) THEN PdfFeatures ELSE {})
                ELSE {})
     ELSE {})
    \cup (IF f.main_type = <<"image">>
          THEN ImageFeatures \cup (IF has_metadata(f) THEN MetadataFeatures ELSE {})
          ELSE {})

Verdicts(f) == {v \in SUBSET RelevantFeatures(f) : Cardinality(v) <= MaxFeatures}

\* what check() can be told about f: the verdicts above and, for a PDF,
\* every combination of the features PDFiD counts
Findings(f) ==
    Verdicts(f) \cup
    (IF f.main_type = <<"application">> /\ AnyIn(mimes_pdf, f.sub_type)
     THEN SUBSET (PdfFeatures \ {"pdfid_raises"}) ELSE {})

call_handler(h, f, v) ==
    CASE h = "audio" -> audio(f)
      [] h = "image" -> image(f, v)
      [] h = "video" -> video(f)
      [] h = "application" -> application(f, v)
      [] h = "example" -> example(f)
      [] h = "message" -> message(f)
      [] h = "model" -> model(f)
      [] h = "multipart" -> multipart(f)
      [] h = "inode" -> inode(f)
      [] h = "unknown" -> unknown(f)
      [] h = "_unknown_app" -> _unknown_app(f)
      [] OTHER -> call_method(h, f, v)

FileInit ==
    /\ \E name \in Names, mt \in Mimetypes, link \in BOOLEAN :
          /\ link => mt = NoneSeq
          /\ rec = File__init__(join(src_root, name), join(dst_root, name), mt, link)
    /\ rec_pc = "new"
    /\ calls = 0
    /\ prev = None
    /\ ops = {}
    /\ verdict = {}
    /\ root = "none"
    /\ max_recursive_depth = 0
    /\ recursive_archive_depth = 0
    /\ stack = <<>>
    /\ pc = "file"
    /\ log = <<>>
    /\ dest = {}
    /\ tempdirs = {}
    /\ extracted = {}
    /\ done = <<>>

run_vars == <<root, max_recursive_depth, recursive_archive_depth, stack, pc, log,
              dest, tempdirs, extracted, done>>

Called(f, method, n) ==
    /\ rec' = f
    /\ rec_pc' = method
    /\ calls' = calls + n
    /\ prev' = rec.safety_category
    /\ ops' = ops \cup {method}
    /\ UNCHANGED run_vars

Usable ==
    pc = "file" /\ calls < MaxCalls /\ rec.raised = None /\ rec_pc # "handler"

\* check() on the new File, as process_file calls it
Check ==
    /\ pc = "file" /\ rec_pc = "new"
    /\ \E v \in Findings(rec) : Called(check(rec, v), "check", 0) /\ verdict' = v

MakeDangerous ==
    /\ Usable
    /\ \E reason_string \in Reasons :
          Called(make_dangerous(rec, reason_string), "make_dangerous", 1)
    /\ UNCHANGED verdict

MakeUnknown ==
    Usable /\ Called(make_unknown(rec), "make_unknown", 1) /\ UNCHANGED verdict

MakeBinary ==
    Usable /\ Called(make_binary(rec), "make_binary", 1) /\ UNCHANGED verdict

ForceExt ==
    /\ Usable
    /\ \E ext \in {".txt", "txt"} : Called(force_ext(rec, ext), "force_ext", 1)
    /\ UNCHANGED verdict

\* one handler called directly on the File, new or checked; the libraries
\* find in a checked file what they found during check()
CallHandler ==
    /\ Usable /\ rec_pc \in {"new", "check"} /\ has_mimetype(rec)
    /\ \E h \in HandlerNames :
       \E v \in (IF rec_pc = "check" THEN {verdict} ELSE Verdicts(rec)) :
          Called(call_handler(h, rec, v), "handler", 1) /\ verdict' = v

FileNext ==
    \/ Check
    \/ MakeDangerous
    \/ MakeUnknown
    \/ MakeBinary
    \/ ForceExt
    \/ CallHandler

FileSpec == FileInit /\ [][FileNext]_vars

(***************************************************************************)
(* The source key: directories, files, symbolic links and, for an archive, *)
(* what the extractor unpacks from it.                                     *)
(***************************************************************************)
Dir(name, entries) ==
    [name |-> name, kind |-> "dir", mime |-> NoneSeq, entries |-> entries]
RegularFile(name, mime) ==
    [name |-> name, kind |-> "file", mime |-> mime, entries |-> <<>>]
Archive(name, mime, entries) ==
    [name |-> name, kind |-> "file", mime |-> mime, entries |-> entries]
Symlink(name) ==
    [name |-> name, kind |-> "symlink", mime |-> NoneSeq, entries |-> <<>>]

Nodes ==
    [\* a zip holding a zip holding a text file
     key1 |-> Dir(<<"src">>, <<"outer">>),
     outer |-> Archive(<<"o", ".zip">>, M.zip, <<"inner">>),
     inner |-> Archive(<<"i", ".zip">>, M.zip, <<"t_txt">>),
     t_txt |-> RegularFile(<<"t", ".txt">>, M.text_plain),
     \* an archive that unpacks to itself
     key2 |-> Dir(<<"src">>, <<"quine">>),
     quine |-> Archive(<<"q", ".zip">>, M.zip, <<"quine">>),
     \* documents, an executable, a file without extension, a link
     key3 |-> Dir(<<"src">>, <<"n", "x_exe", "d_odt", "l_xyz", "B_pdf", "m_bin">>),
     B_pdf |-> RegularFile(<<"B", ".pdf">>, M.pdf),
     d_odt |-> RegularFile(<<"d", ".odt">>, M.odt),
     x_exe |-> RegularFile(<<"x", ".exe">>, M.dosexec),
     n |-> RegularFile(<<"n">>, M.text_plain),
     l_xyz |-> Symlink(<<"l", ".xyz">>),
     m_bin |-> RegularFile(<<"m", ".bin">>, M.octet),
     \* archives nested four deep, with documents beside them
     key4 |-> Dir(<<"src">>, <<"z1">>),
     z1 |-> Archive(<<"z", ".zip">>, M.zip, <<"z2", "d_odt">>),
     z2 |-> Archive(<<"z", ".zip">>, M.zip, <<"z3", "t_txt">>),
     z3 |-> Archive(<<"z", ".zip">>, M.zip, <<"z4">>),
     z4 |-> Archive(<<"z", ".zip">>, M.zip, <<"z5">>),
     z5 |-> Archive(<<"z", ".zip">>, M.zip, <<"t_txt">>),
     \* a directory with a subdirectory
     key5 |-> Dir(<<"src">>, <<"Sub", "a_txt", "c_jpg">>),
     a_txt |-> RegularFile(<<"a", ".txt">>, M.text_plain),
     c_jpg |-> RegularFile(<<"c", ".jpg">>, M.jpeg),
     Sub |-> Dir(<<"Sub">>, <<"sub_c", "sub_a">>),
     sub_a |-> RegularFile(<<"a", ".txt">>, M.text_plain),
     sub_c |-> RegularFile(<<"c", ".jpg">>, M.jpeg)]

Keys == {"key1", "key2", "key3", "key4", "key5"}

\* the order of str.lower(name) over the tokens of the names above
Collation ==
    <<".bin", ".exe", ".jpg", ".odt", ".pdf", ".txt", ".xyz", ".zip",
      "a", "b", "c", "d", "i", "l", "m", "n", "o", "q", "sub", "t", "x", "z">>

LowerName(t) ==
    CASE t = "B" -> "b"
      [] t = "Sub" -> "sub"
      [] OTHER -> Lower(t)

Rank(t) == CHOOSE i \in 1..Len(Collation) : Collation[i] = LowerName(t)

RECURSIVE LessName(_, _)
LessName(n1, n2) ==
    IF n1 = <<>> THEN n2 # <<>>
    ELSE IF n2 = <<>> THEN FALSE
    ELSE IF Rank(n1[1]) # Rank(n2[1]) THEN Rank(n1[1]) < Rank(n2[1])
    ELSE LessName(SubSeq(n1, 2, Len(n1)), SubSeq(n2, 2, Len(n2)))

\* os.listdir(dir) as it comes
sorted_listdir_unsorted(entries) == entries

\* sorted(os.listdir(dir), key=lambda x: str.lower(x))
sorted_listdir(entries) ==
    SortSeq(entries, LAMBDA x, y : LessName(Nodes[x].name, Nodes[y].name))

\* list_files_dirs over the directory at root_dir_path that holds `entries`:
\* the loop over the sorted listing from its i-th element on
RECURSIVE list_files_dirs_from(_, _, _)
list_files_dirs_from(listing, i, root_dir_path) ==
    IF i > Len(listing) THEN <<>>
    ELSE LET node == listing[i]
             full_path == join(root_dir_path, Nodes[node].name)
             here == <<[node |-> node, path |-> full_path]>>
         IN  (IF Nodes[node].kind = "dir"
              THEN here \o list_files_dirs_from(sorted_listdir(Nodes[node].entries),
                                                1, full_path)
              ELSE here)
             \o list_files_dirs_from(listing, i + 1, root_dir_path)

list_files_dirs(entries, root_dir_path) ==
    list_files_dirs_from(sorted_listdir(entries), 1, root_dir_path)

(***************************************************************************)
(* bin/filecheck.py: GroomerLogger                                         *)
(***************************************************************************)
IsPrefix(p, q) == Len(p) <= Len(q) /\ SubSeq(q, 1, Len(p)) = p

\* os.path.relpath(path, base_path).count(os.path.sep)
_get_path_depth(path) ==
    LET base_path == IF IsPrefix(dst_root, path) THEN dst_root ELSE src_root
    IN  Len(path) - Len(base_path) - 1

_add_root_dir(root_path) ==
    <<[kind |-> "root", depth |-> 0, filepath |-> root_path,
       name |-> basename(root_path), category |-> None, description |-> <<>>,
       holds |-> root_path]>>

\* `holds` is not written to the log: it is the directory in which the
\* entries of the line's directory or archive are found
add_file(lg, file_path, props, in_tempdir) ==
    LET depth == _get_path_depth(file_path)
    IN  Append(lg, [kind |-> "file",
                    depth |-> IF in_tempdir THEN depth - 1 ELSE depth,
                    filepath |-> props.filepath,
                    name |-> props.filename,
                    category |-> props.safety_category,
                    description |-> props.description_string,
                    holds |-> props.tempdir_path])

add_dir(lg, dir_path) ==
    Append(lg, [kind |-> "dir", depth |-> _get_path_depth(dir_path),
                filepath |-> dir_path,
                name |-> basename(dir_path), category |-> None,
                description |-> <<>>, holds |-> dir_path])

\* File.write_log
write_log(lg, f, dirs) ==
    IF ~f.is_recursive /\ f.tempdir_path \in dirs
    THEN add_file(lg, f.src_path, f, TRUE)
    ELSE add_file(lg, f.src_path, f, FALSE)

(***************************************************************************)
(* bin/filecheck.py: KittenGroomerFileCheck                                *)
(***************************************************************************)
NoFile == [filename |-> <<>>]

\* a process_dir invocation: the entries left, the File being processed and
\* where process_file / process_archive stands on it
Frame(queue, dst_dir) ==
    [queue |-> queue, dst_dir |-> dst_dir, cur |-> NoFile, node |-> "none",
     pos |-> "loop", status |-> None]

Top == stack[Len(stack)]
SetTop(fr) == [stack EXCEPT ![Len(stack)] = fr]

bound_reached_late(depth, max_depth) == depth > max_depth

\* the archive-bomb test of process_archive
bound_reached(depth, max_depth) == depth >= max_depth

\* the process_archive invocations on the call stack
InArchive == {i \in 1..Len(stack) : stack[i].pos \in {"extracting", "process_dir", "leave"}}

\* safe_copy: the File afterwards; an exception of shutil.copy or os.makedirs
\* is caught and recorded
safe_copy(f, copy_ok) == IF copy_ok THEN f ELSE add_error(f, "safe_copy")

\* shutil.copy(src, dst): the file at dst is created or replaced
copy(dst_files, f, source) ==
    {d \in dst_files : d.path # f.dst_path}
    \cup {[path |-> f.dst_path, src |-> source, category |-> f.safety_category]}

file_vars == <<rec, rec_pc, calls, prev, ops, verdict>>

Init ==
    /\ rec = NoFile
    /\ rec_pc = "none"
    /\ calls = 0
    /\ prev = None
    /\ ops = {}
    /\ verdict = {}
    /\ root \in Keys
    /\ max_recursive_depth \in 0..MaxDepthParam
    /\ recursive_archive_depth = 0
    /\ stack = <<>>
    /\ pc = "idle"
    /\ log = _add_root_dir(src_root)
    /\ dest = {}
    /\ tempdirs = {}
    /\ extracted = {}
    /\ done = <<>>

\* run(): process_dir(src_root_path, dst_root_path) is entered
Run ==
    /\ pc = "idle"
    /\ pc' = "running"
    /\ stack' = <<Frame(list_files_dirs(Nodes[root].entries, src_root), dst_root)>>
    /\ UNCHANGED <<file_vars, root, max_recursive_depth, recursive_archive_depth,
                   log, dest, tempdirs, extracted, done>>

\* process_dir: the next entry is a directory
ProcessDirectory ==
    /\ pc = "running" /\ Top.pos = "loop" /\ Top.queue # <<>>
    /\ Nodes[Head(Top.queue).node].kind = "dir"
    /\ log' = add_dir(log, Head(Top.queue).path)
    /\ stack' = SetTop([Top EXCEPT !.queue = Tail(@)])
    /\ UNCHANGED <<file_vars, root, max_recursive_depth, recursive_archive_depth,
                   pc, dest, tempdirs, extracted, done>>

\* process_file from the return of check() to the call of process_archive,
\* or to its end
process_file(entry, checked) ==
    \E dirs \in {IF checked.made_tempdir
                 THEN tempdirs \cup {checked.tempdir_path} ELSE tempdirs} :
    \E copy_ok \in IF checked.should_copy /\ checked.raised = None
                   THEN BOOLEAN ELSE {TRUE} :
    \E file \in {IF checked.should_copy
                 THEN [safe_copy(checked, copy_ok) EXCEPT !.copied = TRUE]
                 ELSE checked} :
        IF checked.raised # None
        THEN \* the exception leaves process_file, process_dir and run
             /\ pc' = "crashed"
             /\ stack' = <<>>
             /\ tempdirs' = dirs
             /\ UNCHANGED <<log, dest, done>>
        ELSE /\ pc' = pc
             /\ dest' = IF file.should_copy /\ copy_ok
                        THEN copy(dest, file, entry.path) ELSE dest
             /\ log' = IF file.should_copy THEN write_log(log, file, dirs)
                       ELSE log
             /\ IF file.is_recursive
                THEN /\ stack' = SetTop([Top EXCEPT !.cur = file,
                                                    !.node = entry.node,
                                                    !.pos = "process_archive"])
                     /\ tempdirs' = dirs
                     /\ done' = done
                ELSE /\ stack' = SetTop([Top EXCEPT !.queue = Tail(@)])
                     /\ tempdirs' = dirs \ {file.tempdir_path}
                     /\ done' = Append(done, [file |-> file, source |-> entry.path,
                                              level |-> Len(stack),
                                              status |-> None])

\* process_dir: the next entry is a file; File(...) and process_file
ProcessFile ==
    /\ pc = "running" /\ Top.pos = "loop" /\ Top.queue # <<>>
    /\ Nodes[Head(Top.queue).node].kind # "dir"
    /\ \E entry \in {Head(Top.queue)} :
       \E new \in {File__init__(entry.path,
                                join(Top.dst_dir, basename(entry.path)),
                                Nodes[entry.node].mime,
                                Nodes[entry.node].kind = "symlink")} :
       \E v \in Verdicts(new) :
       \E checked \in {check(new, v)} : process_file(entry, checked)
    /\ UNCHANGED <<file_vars, root, max_recursive_depth, recursive_archive_depth,
                   extracted>>

\* process_archive up to the extractor: the depth is incremented and either
\* the archive is an archive bomb or 7z is started on it
EnterArchive ==
    /\ pc = "running" /\ Top.pos = "process_archive"
    /\ recursive_archive_depth' = recursive_archive_depth + 1
    /\ IF bound_reached(recursive_archive_depth', max_recursive_depth)
       THEN /\ stack' = SetTop([Top EXCEPT !.cur = make_dangerous(@, "Archive bomb"),
                                           !.pos = "leave"])
            /\ UNCHANGED <<tempdirs, extracted>>
       ELSE /\ tempdirs' = tempdirs \cup {Top.cur.tempdir_path}
            /\ extracted' = extracted \cup
                 {[src_path |-> Top.cur.src_path, level |-> Len(stack)]}
            /\ stack' = SetTop([Top EXCEPT !.pos = "extracting"])
    /\ UNCHANGED <<file_vars, root, max_recursive_depth, pc, log, dest, done>>

\* _run_process: True when 7z exits with status 0, None when it exits with
\* another status (CalledProcessError) or the timeout expires
_run_process(status) == IF status = "exit 0" THEN "True" ELSE None

extractor_returned_strict(f, returned) ==
    IF returned = None THEN make_dangerous(f, "Archive could not be unpacked") ELSE f

\* the archive after `self._run_process(unpack_command)`: process_archive
\* discards the value returned
extractor_returned(f, returned) == f

\* _run_process returns (7z exited, with status 0 or not, leaving all or
\* nothing of the contents in the scratch directory); the archive is logged
\* and process_dir is entered on the scratch directory
ExtractorReturns ==
    /\ pc = "running" /\ Top.pos = "extracting"
    /\ \E status \in {"exit 0", "exit 2"} :
       \E unpacked \in IF status = "exit 0" THEN {Nodes[Top.node].entries}
                       ELSE {<<>>, Nodes[Top.node].entries} :
       \E file \in {extractor_returned(Top.cur, _run_process(status))} :
          /\ log' = write_log(log, file, tempdirs)
          /\ stack' = Append(SetTop([Top EXCEPT !.cur = file,
                                                 !.pos = "process_dir",
                                                 !.status = status]),
                             Frame(list_files_dirs(unpacked, file.tempdir_path),
                                   file.dst_path))
    /\ UNCHANGED <<file_vars, root, max_recursive_depth, recursive_archive_depth,
                   pc, dest, tempdirs, extracted, done>>

\* process_dir on a scratch directory returns to process_archive, which
\* removes the scratch directory
ReturnToArchive ==
    /\ pc = "running" /\ Len(stack) > 1
    /\ Top.pos = "loop" /\ Top.queue = <<>>
    /\ LET caller == stack[Len(stack) - 1]
       IN  /\ stack' = Append(SubSeq(stack, 1, Len(stack) - 2),
                              [caller EXCEPT !.pos = "leave"])
           /\ tempdirs' = tempdirs \ {caller.cur.tempdir_path}
    /\ UNCHANGED <<file_vars, root, max_recursive_depth, recursive_archive_depth,
                   pc, log, dest, extracted, done>>

leave_depth_kept(depth) == depth

\* the depth after process_archive's last statement
leave_depth(depth) == depth - 1

\* process_archive decrements the depth and returns; process_file removes
\* the File's scratch directory and returns
LeaveArchive ==
    /\ pc = "running" /\ Top.pos = "leave"
    /\ recursive_archive_depth' = leave_depth(recursive_archive_depth)
    /\ tempdirs' = tempdirs \ {Top.cur.tempdir_path}
    /\ done' = Append(done, [file |-> Top.cur, source |-> Top.cur.src_path,
                             level |-> Len(stack), status |-> Top.status])
    /\ stack' = SetTop([Top EXCEPT !.queue = Tail(@), !.cur = NoFile,
                                   !.node = "none", !.pos = "loop",
                                   !.status = None])
    /\ UNCHANGED <<file_vars, root, max_recursive_depth, pc, log, dest, extracted>>

\* process_dir on the source root returns: run() is over
Finish ==
    /\ pc = "running" /\ Len(stack) = 1
    /\ Top.pos = "loop" /\ Top.queue = <<>>
    /\ pc' = "done"
    /\ stack' = <<>>
    /\ UNCHANGED <<file_vars, root, max_recursive_depth, recursive_archive_depth,
                   log, dest, tempdirs, extracted, done>>

Next ==
    \/ Run
    \/ ProcessDirectory
    \/ ProcessFile
    \/ EnterArchive
    \/ ExtractorReturns
    \/ ReturnToArchive
    \/ LeaveArchive
    \/ Finish

Spec == Init /\ [][Next]_vars

\* every call returns: run() is not suspended forever
LiveSpec == Spec /\ WF_vars(Next)

(***************************************************************************)
(* Properties of FileSpec                                                  *)
(***************************************************************************)
CategoryMethods == {"make_unknown", "make_binary", "make_dangerous"}

\* the extension the File was constructed with
OrigExt(f) == _determine_extension(<<f.filename>>)

\* C1: once safety_category is 'dangerous', no call of make_unknown,
\* make_binary, make_dangerous, force_ext, check() or a handler changes it.
C1_DangerousAbsorbing == [][is_dangerous(rec) => is_dangerous(rec')]_vars

C1_Witness ==
    /\ rec_pc \in {"make_unknown", "make_binary", "handler"}
    /\ prev = "dangerous"
    /\ is_dangerous(rec)

\* C2: a call of make_unknown / make_binary / make_dangerous changes the
\* category only unset->unknown, unset->binary, unset->dangerous,
\* unknown->dangerous or binary->dangerous.
C2_Transitions ==
    [][rec_pc' \in CategoryMethods /\ rec'.safety_category # rec.safety_category
       => <<rec.safety_category, rec'.safety_category>> \in
            {<<None, "unknown">>, <<None, "binary">>, <<None, "dangerous">>,
             <<"unknown", "dangerous">>, <<"binary", "dangerous">>}]_vars

\* C3: after any sequence of make_unknown / make_binary / make_dangerous /
\* force_ext calls the destination file name is the original name with the
\* one transform of the final category.
C3_OneTransform ==
    (ops # {} /\ ops \subseteq CategoryMethods \cup {"force_ext"})
    => basename(rec.dst_path) \in
         CASE is_dangerous(rec) -> {<<"DANGEROUS_">> \o rec.filename \o <<"_DANGEROUS">>}
           [] is_unknown(rec) -> {<<"UNKNOWN_">> \o rec.filename}
           [] is_binary(rec) -> {rec.filename \o <<".bin">>}
           [] OTHER -> {rec.filename, rec.filename \o <<".txt">>}

\* C8: a file whose lower-cased extension is in the dangerous-extension list
\* ends check() dangerous with the extension reason recorded, whatever its
\* mimetype.
C8_MaliciousExtension ==
    (rec_pc = "check" /\ OrigExt(rec) \in malicious_exts)
    => /\ is_dangerous(rec)
       /\ InSeq("Extension identifies file as potentially dangerous",
                rec.description_string)

C8_Witness ==
    /\ rec_pc = "check"
    /\ OrigExt(rec) \in malicious_exts
    /\ rec.mimetype = NoneSeq
    /\ is_dangerous(rec)

\* C9: a file with no mimetype, a mimetype lacking a main or a sub type, a
\* sniffer failure or no extension ends check() dangerous, and no handler ran.
C9_Inconclusive ==
    (rec_pc = "check"
     /\ (rec.mimetype = NoneSeq \/ rec.main_type = NoneSeq \/ rec.sub_type = NoneSeq
         \/ OrigExt(rec) = None))
    => is_dangerous(rec) /\ rec.handlers = <<>>

C9_Witness ==
    /\ rec_pc = "check"
    /\ rec.mimetype = M.nosub
    /\ OrigExt(rec) = ".xyz"
    /\ is_dangerous(rec)

\* C10 as claimed: a file dispatched to the message, model, multipart or
\* fallback handler ends check() dangerous or unknown.
C10_Original ==
    (rec_pc = "check" /\ rec.handlers # <<>>
     /\ rec.handlers[1] \in {"message", "model", "multipart", "unknown"})
    => rec.safety_category \in {"dangerous", "unknown"}

\* C10 amended: message and model end check() dangerous; multipart and the
\* fallback end it with the category unset and should_copy false.
C10_Amended ==
    (rec_pc = "check" /\ rec.handlers # <<>>)
    => /\ rec.handlers[1] \in {"message", "model"} => is_dangerous(rec)
       /\ rec.handlers[1] \in {"multipart", "unknown"}
            => rec.safety_category = None /\ ~rec.should_copy

C10_Witness ==
    /\ rec_pc = "check"
    /\ rec.handlers = <<"unknown">>
    /\ rec.safety_category = None
    /\ ~rec.should_copy

\* C11: a file whose top-level mimetype is inode (a symbolic link or an
\* empty file) ends check() not dangerous and not to be copied, whatever its
\* name and extension.
C11_InodeNeverDangerous ==
    (rec_pc = "check" /\ rec.main_type = <<"inode">>)
    => ~is_dangerous(rec) /\ ~rec.should_copy

\* a collaborator could not parse the container: olefile.OleFileIO (called
\* for a file that is not an OLE file), zipfile.ZipFile, officedissector or
\* PDFiD raised
ParseFailed(v) ==
    \/ {"not_olefile", "olefileio_raises"} \subseteq v
    \/ v \cap {"zipfile_raises", "document_raises", "pdfid_raises"} # {}

\* C15: when a collaborator fails to parse the container, check() ends with
\* the file dangerous, and no exception leaves the handler.
C15_ParseFailureDangerous ==
    (rec_pc = "check" /\ ParseFailed(verdict))
    => is_dangerous(rec) /\ rec.raised = None

\* the collaborators report a macro in the file: a macro stream, the
\* macro flag of oletools.oleid for an OLE file, or the macro-enabled flag
\* or a macro feature of an OOXML document
CarriesMacro(f, v) ==
    \/ /\ f.main_type = <<"application">> /\ AnyIn(mimes_office, f.sub_type)
       /\ \/ "macro_stream" \in v
          \/ "oid_macros" \in v /\ "not_olefile" \notin v
    \/ /\ f.main_type \in {<<"application">>, <<"text">>}
       /\ AnyIn(mimes_ooxml, f.sub_type)
       /\ v \cap {"is_macro_enabled", "macros"} # {}

MacroReasons == {"WinOffice file containing a macro", "Ooxml file containing macro"}

PdfReasons(v) ==
    (IF "encrypt" \in v THEN {"Encrypted pdf"} ELSE {}) \cup
    (IF v \cap {"js", "javascript"} # {} THEN {"Pdf with embedded javascript"} ELSE {}) \cup
    (IF v \cap {"aa", "openaction"} # {} THEN {"Pdf with openaction(s)"} ELSE {}) \cup
    (IF "richmedia" \in v THEN {"Pdf containing flash"} ELSE {}) \cup
    (IF "launch" \in v THEN {"Pdf with launch action(s)"} ELSE {})

\* C20: for a PDF that reaches _pdf, and every combination of the features
\* PDFiD counts, the descriptions are exactly the reasons of the features
\* present, the file is dangerous iff one is present, and 'Pdf file' is the
\* description iff none is.
C20_PdfFeatures ==
    (rec_pc = "check" /\ rec.handlers = <<"application", "_pdf">>
     /\ rec.raised = None)
    => /\ {rec.description_string[i] : i \in 1..Len(rec.description_string)}
            = IF PdfReasons(verdict) = {} THEN {"Pdf file"} ELSE PdfReasons(verdict)
       /\ is_dangerous(rec) <=> PdfReasons(verdict) # {}
       /\ Len(rec.description_string) = Cardinality(PdfReasons(verdict) \cup
              (IF PdfReasons(verdict) = {} THEN {"Pdf file"} ELSE {}))

C20_Witness ==
    /\ rec_pc = "check"
    /\ rec.handlers = <<"application", "_pdf">>
    /\ verdict = {"openaction", "js", "javascript", "launch"}
    /\ rec.description_string = <<"Pdf with embedded javascript",
                                  "Pdf with openaction(s)",
                                  "Pdf with launch action(s)">>

\* C21: a file with extension .txt (in any case) that libmagic reports as
\* text/plain ends check() to be copied under its source file name, with
\* safety_category unset.
C21_PlainTextUnchanged ==
    (rec_pc = "check" /\ OrigExt(rec) = ".txt" /\ rec.mimetype = M.text_plain
     /\ ~InSeq(RLO, rec.filename))
    => /\ basename(rec.dst_path) = rec.filename
       /\ rec.safety_category = None
       /\ rec.should_copy

\* C22: when metadata are extracted from an image with n retained keys, the
\* sidecar <name>.metadata.txt holds exactly n lines, one per key; when a
\* file already exists at the sidecar path, an error is recorded and no
\* metadata write is attempted.
C22_SidecarLines ==
    (rec_pc = "check" /\ rec.handlers = <<"image">> /\ has_metadata(rec)
     /\ verdict \cap {"metadata_raises", "metadata_raises_once"} = {})
    => IF "sidecar_exists" \in verdict
       THEN /\ InSeq("KittenGroomerError", rec.errors)
            /\ rec.fd0_writes = 0 /\ rec.raised = None /\ rec.sidecar = <<>>
       ELSE /\ Len(rec.sidecar) = Len(retained_tags(verdict))
            /\ \A i \in 1..Len(rec.sidecar) :
                  rec.sidecar[i][2] = retained_tags(verdict)[i]

\* C24: after check(), a top-level type handler has run if and only if the
\* four generic checks left the file not dangerous, and then exactly one
\* has run, the one of the main type; a file the generic checks made
\* dangerous is not flagged as a container (is_recursive false, should_copy
\* true), so it is never extracted.
C24_HandlerIffNotDangerous ==
    rec_pc = "check" =>
    LET generic == \E i \in 1..Len(rec.description_string) :
                      rec.description_string[i] \in
                         {"File has no mimetype", "File has no extension",
                          "Extension identifies file as potentially dangerous",
                          "Filename contains dangerous character",
                          "Mimetype does not match expected mimetype for this extension",
                          "Extension does not match expected extensions for this mimetype"}
        top == {"text", "audio", "image", "video", "application", "example",
                "message", "model", "multipart", "inode", "unknown"}
    IN  /\ generic <=> rec.handlers = <<>>
        /\ generic => is_dangerous(rec) /\ ~rec.is_recursive /\ rec.should_copy
        /\ ~generic =>
              /\ rec.handlers[1] \in top
              /\ rec.handlers[1] \in {rec.main_type[1], "unknown"}
              /\ \A i \in 2..Len(rec.handlers) :
                    /\ rec.handlers[1] \in {"application", "text"}
                    /\ rec.handlers[i] \notin top \ {"text"}
                    /\ rec.handlers[i] = "text" => rec.handlers[1] = "application"

C24_Witness ==
    /\ rec_pc = "check" /\ rec.mimetype = M.zip /\ rec.extension = ".exe"
    /\ is_dangerous(rec) /\ rec.handlers = <<>> /\ ~rec.is_recursive

\* C25: the three presence checks all run, independently of each other: for
\* every combination of (no mimetype, no extension, extension in the
\* dangerous list) the description log after check() holds the reason of
\* each condition that is true, in that order, and none of the others.
C25_PresenceChecksIndependent ==
    rec_pc = "check" =>
    LET presence(reason) ==
            reason \in {"File has no mimetype", "File has no extension",
                        "Extension identifies file as potentially dangerous"}
    IN  SelectSeq(rec.description_string, presence) =
            (IF ~has_mimetype(rec) THEN <<"File has no mimetype">> ELSE <<>>) \o
            (IF OrigExt(rec) = None THEN <<"File has no extension">> ELSE <<>>) \o
            (IF OrigExt(rec) \in malicious_exts
             THEN <<"Extension identifies file as potentially dangerous">> ELSE <<>>)

C25_Witness ==
    /\ rec_pc = "check" /\ ~has_mimetype(rec) /\ OrigExt(rec) \in malicious_exts
    /\ SubSeq(rec.description_string, 1, 2) =
          <<"File has no mimetype",
            "Extension identifies file as potentially dangerous">>

C28_OverrideCharacter ==
    (rec_pc = "check" /\ InSeq(RLO, basename(rec.filepath)))
    => /\ is_dangerous(rec)
       /\ InSeq("Filename contains dangerous character", rec.description_string)
       /\ \A i \in 1..Len(rec.dst_path) : ~InSeq(RLO, rec.dst_path[i])
       /\ basename(rec.dst_path) =
             <<"DANGEROUS_">>
             \o SelectSeq(basename(rec.filepath), LAMBDA t : t # RLO)
             \o <<"_DANGEROUS">>
       /\ rec.filename = basename(rec.filepath)

C28_Witness ==
    /\ rec_pc = "check" /\ rec.filename = <<"a", RLO, ".exe">>
    /\ rec.mimetype = M.text_plain
    /\ basename(rec.dst_path) = <<"DANGEROUS_", "a", ".exe", "_DANGEROUS">>

(***************************************************************************)
(* Properties of Spec                                                      *)
(***************************************************************************)
\* the nesting level of the archive a frame is processing: 1 on the source
\* key, 2 inside one archive, ...
Level(i) == i

WasExtracted(src_path, level) ==
    [src_path |-> src_path, level |-> level] \in extracted

\* the files processed from inside the scratch directory of archive f
ChildrenDone(f) ==
    {i \in 1..Len(done) : IsPrefix(f.tempdir_path, done[i].source)}

\* C4: no archive nested deeper than max_recursive_depth is extracted; when
\* process_archive has incremented the depth and the bound is reached, the
\* archive is dangerous ('Archive bomb'), has no scratch directory, was not
\* given to the extractor and none of its contents was processed.
C4_NoDeepExtraction ==
    /\ \A e \in extracted : e.level <= max_recursive_depth
    /\ \A i \in 1..Len(stack) :
          (stack[i].pos = "leave"
           /\ recursive_archive_depth >= max_recursive_depth)
          => /\ is_dangerous(stack[i].cur)
             /\ InSeq("Archive bomb", stack[i].cur.description_string)
             /\ stack[i].cur.tempdir_path \notin tempdirs
             /\ ~WasExtracted(stack[i].cur.src_path, Level(i))
             /\ ChildrenDone(stack[i].cur) = {}

C4_Witness ==
    /\ Len(stack) = 3
    /\ Top.pos = "leave"
    /\ recursive_archive_depth = max_recursive_depth
    /\ is_dangerous(Top.cur)

\* C5: every archive at nesting level at or below max_recursive_depth is
\* expanded and not marked dangerous (with max_recursive_depth = 2, both the
\* zip on the key and the zip inside it).
C5_ExpandedWithinBound ==
    \A i \in 1..Len(done) :
        (done[i].file.is_recursive /\ done[i].level <= max_recursive_depth)
        => /\ WasExtracted(done[i].source, done[i].level)
           /\ ~is_dangerous(done[i].file)

\* C6: 0 <= recursive_archive_depth <= max_recursive_depth, and the depth is
\* the number of process_archive invocations on the call stack.
C6_DepthInvariant ==
    /\ recursive_archive_depth \in 0..max_recursive_depth
    /\ recursive_archive_depth = Cardinality(InArchive)

\* C7: for every source key and every max_recursive_depth, the quine archive
\* included, run() returns with recursive_archive_depth = 0 in every run in
\* which each collaborator call returns (a run in which one raises ends
\* "crashed").
C7_Terminates ==
    <>(pc = "crashed" \/ (pc = "done" /\ recursive_archive_depth = 0))

C7_Witness ==
    /\ pc = "done"
    /\ root = "key2"
    /\ max_recursive_depth >= 3
    /\ Cardinality(extracted) >= 2
    /\ recursive_archive_depth = 0

\* the lines of the log that add_file wrote
FileLines == {j \in 1..Len(log) : log[j].kind = "file"}

\* C12: when run() has returned, the log holds exactly one line for every
\* file that was processed, the files that are not copied and the archives
\* marked 'Archive bomb' included.
C12_OneLinePerEntry ==
    pc = "done"
    => /\ Cardinality(FileLines) = Len(done)
       /\ \A i \in 1..Len(done) :
             Cardinality({j \in FileLines : log[j].filepath = done[i].file.filepath}) = 1

\* C13: the indentation depth of every file's log line is the depth of the
\* place where the walk found the file (its enclosing source directories and
\* archives), whether or not the file was staged through a scratch
\* directory.
C13_LogDepth ==
    \A j \in FileLines : log[j].depth = _get_path_depth(log[j].filepath)

\* the files list_files_dirs finds on the source key
WalkFiles ==
    {e \in {list_files_dirs(Nodes[root].entries, src_root)[k] :
              k \in 1..Len(list_files_dirs(Nodes[root].entries, src_root))} :
        Nodes[e.node].kind # "dir"}

\* C14: no error raised while one file is processed ends the walk: when
\* run() is over, by a return or by an exception, process_file has returned
\* for every file of the source key that follows the failing one (here: for
\* every file but at most the failing one).
C14_WalkResilient ==
    pc \in {"done", "crashed"}
    => Cardinality({e \in WalkFiles :
                      \A i \in 1..Len(done) : done[i].source # e.path}) <= 1

\* C16: a file whose copy to the destination failed (safe_copy recorded the
\* error in the file's error map) is not reported as copied: its 'copied'
\* property stays false.
C16_FailedCopyNotCopied ==
    \A i \in 1..Len(done) :
        InSeq("safe_copy", done[i].file.errors) => ~done[i].file.copied

\* the archive f has its line in the log
Logged(f) ==
    \E j \in FileLines :
        log[j].filepath = f.filepath /\ InSeq("Archive", log[j].description)

\* C17: when the extractor exits with a non-zero status, process_archive
\* still logs the archive and runs process_dir over the scratch directory,
\* the archive is not dangerous, and when it is done with the archive the
\* scratch directory is gone and the depth counter is back (it counts the
\* process_archive invocations that are running).
C17_ExtractorSoftFailure ==
    /\ \A i \in 1..Len(stack) :
          (stack[i].status = "exit 2" /\ stack[i].pos = "process_dir")
          => /\ Len(stack) > i
             /\ Logged(stack[i].cur)
             /\ ~is_dangerous(stack[i].cur)
    /\ \A i \in 1..Len(done) :
          done[i].status = "exit 2"
          => /\ Logged(done[i].file)
             /\ ~is_dangerous(done[i].file)
             /\ done[i].file.tempdir_path \notin tempdirs
    /\ pc = "running" => recursive_archive_depth = Cardinality(InArchive)

C17_Witness ==
    /\ pc = "done"
    /\ recursive_archive_depth = 0
    /\ \E i \in 1..Len(done) :
          done[i].status = "exit 2" /\ done[i].level = 2 /\ Logged(done[i].file)

\* C18: whenever the processing of a file has ended, by a return or by an
\* exception, its scratch directory no longer exists; in particular none
\* exists when run() is over.
C18_ScratchRemoved ==
    /\ \A i \in 1..Len(done) : done[i].file.tempdir_path \notin tempdirs
    /\ pc \in {"done", "crashed"} => tempdirs = {}

(***************************************************************************)
(* The extractor as an external process                                    *)
(***************************************************************************)
\* the timeout _run_process hands to subprocess.check_call: its default,
\* as process_archive calls it with the command only
timeout == None

\* The walk itself always takes its next step; check_call is bound to
\* return only when a timeout is set, as 7z need not exit by itself.
TimeoutSpec ==
    /\ Spec
    /\ WF_vars(Run \/ ProcessDirectory \/ ProcessFile \/ EnterArchive
                   \/ ReturnToArchive \/ LeaveArchive \/ Finish)
    /\ WF_vars(timeout # None /\ ExtractorReturns)

\* C23: the extraction call is bounded by a timeout: whenever the extractor
\* has been started, process_archive eventually proceeds past the call, and
\* the run eventually finishes.
C23_ExtractionBounded ==
    /\ (pc = "running" /\ Len(stack) > 0 /\ Top.pos = "extracting")
          ~> ~(pc = "running" /\ Len(stack) > 0 /\ Top.pos = "extracting")
    /\ <>(pc \in {"done", "crashed"})

\* C27: log lines are appended in discovery order and never rewritten: the
\* first line names the source root; siblings appear in case-insensitive
\* name order; the line of a directory or of an expanded archive precedes
\* the lines of the entries inside it, and the lines of its contents are
\* consecutive, so they precede the line of its next sibling.  Stated on
\* every step: the lines already written stay, and a line that is added
\* (the k-th) is in order with respect to every line before it.
C27_DiscoveryOrder ==
    [][LET lg == log'
           k == Len(lg)
           inside(c, i) == /\ c # i
                           /\ IsPrefix(lg[c].holds, lg[i].filepath)
                           /\ Len(lg[i].filepath) > Len(lg[c].holds)
       IN  /\ SubSeq(lg, 1, Len(log)) = log
           /\ lg[1].kind = "root" /\ lg[1].name = basename(src_root)
           /\ lg # log =>
                 /\ \A i \in 1..k : ~inside(k, i)
                 /\ \A c, i \in 1..k :
                       (inside(c, i) /\ inside(c, k))
                       => \A j \in i..k : inside(c, j)
                 /\ \A i \in 2..k :
                       (dirname(lg[i].filepath) = dirname(lg[k].filepath))
                       => ~LessName(lg[k].name, lg[i].name)]_vars

\* the key with a subdirectory, walked to the end: files before Sub, as
\* "sub" sorts after "a" and "c", then the contents of Sub
C27_Witness ==
    /\ pc = "done" /\ root = "key5"
    /\ [i \in 1..Len(log) |-> log[i].filepath] =
          << src_root,
             join(src_root, <<"a", ".txt">>),
             join(src_root, <<"c", ".jpg">>),
             join(src_root, <<"Sub">>),
             join(join(src_root, <<"Sub">>), <<"a", ".txt">>),
             join(join(src_root, <<"Sub">>), <<"c", ".jpg">>) >>

\* C29: every file in the destination that was dangerous when it was copied
\* is there under a name DANGEROUS_<name>_DANGEROUS, never under its
\* original name; and no file is marked dangerous after its copy: a File
\* that was copied has the category its copy was made with, and a File
\* marked dangerous by process_archive was not copied.
C29_DangerousCopiesWrapped ==
    /\ \A d \in dest :
          d.category = "dangerous"
          => /\ Head(basename(d.path)) = "DANGEROUS_"
             /\ Last(basename(d.path)) = "_DANGEROUS"
             /\ contains(basename(d.path), basename(d.src))
             /\ basename(d.path) # basename(d.src)
    /\ \A i \in 1..Len(done) :
          /\ \A d \in dest :
                d.src = done[i].source => d.category = done[i].file.safety_category
          /\ InSeq("Archive bomb", done[i].file.description_string)
                => \A d \in dest : d.src # done[i].source
    /\ \A i \in 1..Len(stack) :
          stack[i].cur # NoFile => \A d \in dest : d.src # stack[i].cur.src_path

\* a finished run that copied a dangerous document out of an archive and
\* met an archive bomb
C29_Witness ==
    /\ pc = "done"
    /\ \E d \in dest :
          /\ d.category = "dangerous"
          /\ basename(d.path) = <<"DANGEROUS_", "d", ".odt", "_DANGEROUS">>
    /\ \E i \in 1..Len(done) :
          /\ InSeq("Archive bomb", done[i].file.description_string)
          /\ is_dangerous(done[i].file)

\* C30: two distinct source files that are both copied never get the same
\* destination path: a file at the source-relative path d/f is written
\* under the destination in the corresponding directory d.
C30_DistinctDestinations ==
    LET written == {i \in 1..Len(done) :
                       /\ done[i].file.should_copy
                       /\ ~InSeq("safe_copy", done[i].file.errors)}
    IN  /\ \A i, j \in written :
              i # j => done[i].file.dst_path # done[j].file.dst_path
        /\ \A i \in written :
              IsPrefix(src_root, done[i].source)
              => dirname(done[i].file.dst_path) =
                    dst_root \o SubSeq(dirname(done[i].source),
                                       Len(src_root) + 1,
                                       Len(done[i].source) - 1)

====
